---- MODULE Spec2Model ----
(***************************************************************************)
(* A model of the Ethereum price alert bot (src/main.py): the background   *)
(* monitor task price_monitoring, the four command handlers, the fan-out   *)
(* send_price_notification and the shutdown sequence of main, interleaved  *)
(* at the await points of the code (asyncio runs each task without         *)
(* interruption from one await to the next).                               *)
(***************************************************************************)
EXTENDS Integers, FiniteSets, TLC

\* ------------------------------------------------------------------ bounds

\* Number of chat users that may send commands (ids 1..NumUsers).
NumUsers == 2

\* How many /price handlers may be suspended in their fetch at once.
MaxPriceReqs == 1

Users == 1..NumUsers

\* The quotes the price API may return.  3000 -> 3050 is a move of exactly
\* the threshold, 3000 -> 3010 and 3010 -> 3050 are moves below it, and
\* anything from or to 0 is a move above it.
Prices == {0, 3000, 3010, 3050}

\* --------------------------------------------------------------- constants

\* Python's None, for a price variable that holds no price (prices are >= 0).
None == -1

\* PRICE_THRESHOLD = float(os.getenv("PRICE_THRESHOLD", "50"))
PRICE_THRESHOLD == 50

\* What bot.send_message does for one recipient: it returns, it raises an
\* error whose text does not contain "bot was blocked", or it raises one
\* whose text does.
Outcomes == {"ok", "transient", "blocked"}

VARIABLES
    user_ids,                 \* the module-level set of subscribed ids
    last_eth_price,           \* last successfully fetched price, or None
    last_notification_price,  \* price of the last notification (baseline), or None
    session,                  \* price_tracker.session: "none", "open", "closed"
    pc,                       \* where the monitor task is suspended
    current_price,            \* price_monitoring's local: this iteration's fetched price
    iterRef,                  \* last_notification_price as this iteration's fetch found it
    iterCalls,                \* calls of send_price_notification made by this iteration
    call,                     \* <<price, change>> of this iteration's call
    everCalled,               \* send_price_notification has been called at least once
    snapshot,                 \* user_ids.copy() taken by the call in progress
    pending,                  \* ids of the snapshot the for loop has not reached yet
    cur,                      \* id whose bot.send_message is awaited (0: none)
    result,                   \* per id: outcome of this call's delivery ("none": not attempted)
    evicted,                  \* ids this call discarded from user_ids
    price_req,                \* number of /price handlers suspended in get_eth_price
    reply,                    \* message.answer sent by the step just taken
    mainPc                    \* where main is

vars == <<user_ids, last_eth_price, last_notification_price, session, pc,
          current_price, iterRef, iterCalls, call, everCalled, snapshot,
          pending, cur, result, evicted, price_req, reply, mainPc>>

priceVars == <<last_eth_price, last_notification_price>>
iterVars == <<current_price, iterRef, iterCalls, call, everCalled>>
callVars == <<snapshot, pending, cur, result, evicted>>

\* ----------------------------------------------------------------- helpers

Abs(x) == IF x < 0 THEN -x ELSE x

\* Truth value of a float-or-None in "if x:": None and 0.0 are false.
Truthy(x) == x # None /\ x # 0

NoCall == <<None, 0>>
NoResult == [u \in Users |-> "none"]
\* A handler's answer to the chat of its sender: which text, and the values
\* the text shows (a, b: prices; n: the subscriber count).  m records, for
\* /start and /stop, whether the sender was subscribed when the handler began;
\* got records, for /price, what get_eth_price returned to the handler.
NoReply ==
    [kind |-> "none", a |-> None, b |-> None, n |-> 0, m |-> FALSE,
     got |-> None]

\* A create_session that makes a new session whenever the one it holds is not
\* open, a closed one included.
create_session_Reopens(s) == IF s # "open" THEN "open" ELSE s

\* EthereumPriceTracker.create_session: a session is made only when
\* self.session is None (a closed session object is still truthy).
create_session(s) == IF s = "none" THEN "open" ELSE s

\* EthereumPriceTracker.close_session
close_session(s) == IF s # "none" THEN "closed" ELSE s

\* What get_eth_price may return: float(price) on HTTP 200 with a numeric
\* field, None on every other status and on every exception (a request on
\* a closed session raises, hence None).
FetchOutcomes(s) == IF s = "open" THEN Prices \cup {None} ELSE {None}

\* An add that toggles membership.
Add_Toggle(S, u) == IF u \in S THEN S \ {u} ELSE S \cup {u}

\* user_ids.add(id) and user_ids.discard(id)
Add(S, u) == S \cup {u}
Discard(S, u) == S \ {u}

\* A strict comparison in place of >=.
ThresholdReached_Strict(change) == Abs(change) > PRICE_THRESHOLD

\* abs(price_change) >= PRICE_THRESHOLD
ThresholdReached(change) == Abs(change) >= PRICE_THRESHOLD

\* The baseline test left out: an unset reference is compared like a price.
HasBaseline_Always(ref) == TRUE

\* "if last_notification_price is not None"
HasBaseline(ref) == ref # None

\* Every failed delivery taken for a block.
IsBlocked_AnyFailure(o) == o # "ok"

\* No failed delivery taken for a block.
IsBlocked_Never(o) == FALSE

\* "bot was blocked" in str(e).lower(), for the exception of a failed delivery
IsBlocked(o) == o = "blocked"

\* "except Exception" catching every exception, cancellation included (as
\* it did when CancelledError was an Exception).
ExceptException_CatchesAll(e) == TRUE

\* Whether "except Exception" (lines 62, 145, 184) catches an exception of
\* class e: asyncio.CancelledError derives from BaseException, not from
\* Exception.
ExceptException(e) == e # "CancelledError"

\* main is over: it returned ("done"), or it re-raised the error that
\* start_polling raised ("failed").
Exited == mainPc \in {"done", "failed"}

\* Handler tasks run from the start of polling, which the monitor task's
\* first step precedes (the task is scheduled before start_polling first
\* suspends main), until main is over (asyncio.run then cancels them).
Handling == ~Exited /\ pc # "start"

\* ------------------------------------------------------------------- Init

Init ==
    /\ user_ids = {}
    /\ last_eth_price = None
    /\ last_notification_price = None
    /\ session = "none"
    /\ pc = "start"
    /\ current_price = None
    /\ iterRef = None
    /\ iterCalls = 0
    /\ call = NoCall
    /\ everCalled = FALSE
    /\ snapshot = {}
    /\ pending = {}
    /\ cur = 0
    /\ result = NoResult
    /\ evicted = {}
    /\ price_req = 0
    /\ reply = NoReply
    /\ mainPc = "polling"

\* ------------------------------------------------------- command handlers

\* /start: user_ids.add(message.from_user.id), then the welcome text.
start_handler(u) ==
    /\ Handling
    /\ user_ids' = Add(user_ids, u)
    /\ reply' = [NoReply EXCEPT !.kind = "welcome", !.m = u \in user_ids]
    /\ UNCHANGED <<priceVars, session, pc, iterVars, callVars, price_req, mainPc>>

\* /stop: user_ids.discard(message.from_user.id), then the farewell text.
stop_handler(u) ==
    /\ Handling
    /\ user_ids' = Discard(user_ids, u)
    /\ reply' = [NoReply EXCEPT !.kind = "bye", !.m = u \in user_ids]
    /\ UNCHANGED <<priceVars, session, pc, iterVars, callVars, price_req, mainPc>>

\* /status: the text shows each price only when it is truthy, then the
\* number of subscribers.
StatusReply ==
    [kind |-> "status",
     a |-> IF Truthy(last_eth_price) THEN last_eth_price ELSE None,
     b |-> IF Truthy(last_notification_price) THEN last_notification_price ELSE None,
     n |-> Cardinality(user_ids), m |-> FALSE, got |-> None]

status_handler ==
    /\ Handling
    /\ reply' = StatusReply
    /\ UNCHANGED <<user_ids, priceVars, session, pc, iterVars, callVars,
                   price_req, mainPc>>

\* The reply of /price for a fetch result r: the price when "if current_price:"
\* is true, the failure text otherwise.
PriceReply(r) ==
    IF Truthy(r)
    THEN [NoReply EXCEPT !.kind = "price", !.a = r, !.got = r]
    ELSE [NoReply EXCEPT !.kind = "price_failed", !.got = r]

\* /price, up to the await inside get_eth_price: create_session, then the
\* GET is issued.  On a closed session the GET raises at once, get_eth_price
\* returns None and the handler answers in the same step.
price_handler_call ==
    /\ Handling
    /\ session' = create_session(session)
    /\ \/ /\ session' = "open"
          /\ price_req < MaxPriceReqs
          /\ price_req' = price_req + 1
          /\ reply' = NoReply
       \/ /\ session' = "closed"
          /\ price_req' = price_req
          /\ reply' = PriceReply(None)
    /\ UNCHANGED <<user_ids, priceVars, pc, iterVars, callVars, mainPc>>

\* A /price that also stores the price it fetched as the last seen one.
price_handler_reply_Caches(r) ==
    /\ Handling
    /\ price_req > 0
    /\ r \in FetchOutcomes(session)
    /\ price_req' = price_req - 1
    /\ reply' = PriceReply(r)
    /\ last_eth_price' = (IF Truthy(r) THEN r ELSE last_eth_price)
    /\ UNCHANGED <<user_ids, last_notification_price, session, pc, iterVars,
                   callVars, mainPc>>

\* /price, from the completion of the GET to the answer.
price_handler_reply(r) ==
    /\ Handling
    /\ price_req > 0
    /\ r \in FetchOutcomes(session)
    /\ price_req' = price_req - 1
    /\ reply' = PriceReply(r)
    /\ UNCHANGED <<user_ids, priceVars, session, pc, iterVars, callVars, mainPc>>

\* ------------------------------------------------------------ the monitor

\* The top of the while loop up to the await inside get_eth_price.
BeginIteration ==
    /\ session' = create_session(session)
    /\ pc' = "fetching"
    /\ current_price' = None
    /\ iterRef' = None
    /\ iterCalls' = 0
    /\ call' = NoCall
    /\ snapshot' = {}
    /\ pending' = {}
    /\ cur' = 0
    /\ result' = NoResult
    /\ evicted' = {}
    /\ reply' = NoReply
    /\ UNCHANGED <<user_ids, priceVars, everCalled, price_req, mainPc>>

\* The task's first step: the first fetch, with no sleep before it.
MonStart ==
    /\ pc = "start"
    /\ BeginIteration

\* A loop that goes on only after a successful iteration.
MonWake_AfterSuccessOnly ==
    /\ pc = "sleep"
    /\ BeginIteration

\* A loop without the "continue" of line 165: after the sleep that follows a
\* failed fetch, control falls through to the sleep at the end of the body.
MonWake_NoContinue ==
    /\ pc \in {"sleep", "sleep_fail", "sleep_exc"}
    /\ IF pc = "sleep_fail"
       THEN /\ pc' = "sleep_exc"
            /\ reply' = NoReply
            /\ UNCHANGED <<user_ids, priceVars, session, iterVars, callVars,
                           price_req, mainPc>>
       ELSE BeginIteration

\* asyncio.sleep(CHECK_INTERVAL) is over: the next iteration begins.  The
\* sleep is the one of line 164 after a failed fetch ("sleep_fail"), and the
\* one of line 187 after a successful iteration ("sleep") or after the
\* except clause of line 184 ("sleep_exc").
MonWake ==
    /\ pc \in {"sleep", "sleep_fail", "sleep_exc"}
    /\ BeginIteration

\* The price variables assigned before the None test.
MonFetchFailure_AssignsFirst ==
    /\ pc = "fetching"
    /\ None \in FetchOutcomes(session)
    /\ pc' = "sleep_fail"
    /\ last_eth_price' = None
    /\ reply' = NoReply
    /\ UNCHANGED <<user_ids, last_notification_price, session, iterVars, callVars,
                   price_req, mainPc>>

\* get_eth_price returned None: warning, sleep, continue.
MonFetchFailure ==
    /\ pc = "fetching"
    /\ None \in FetchOutcomes(session)
    /\ pc' = "sleep_fail"
    /\ reply' = NoReply
    /\ UNCHANGED <<user_ids, priceVars, session, iterVars, callVars, price_req, mainPc>>

\* The reference set by the baseline only, never by a notification.
EndIteration_BaselineOnly(p, ref) ==
    /\ last_notification_price' =
          IF last_notification_price = None THEN ref ELSE last_notification_price
    /\ last_eth_price' = p
    /\ pc' = "sleep"

\* The reference following every poll instead of every notification.
EndIteration_EveryPoll(p, ref) ==
    /\ last_notification_price' = p
    /\ last_eth_price' = p
    /\ pc' = "sleep"

\* An iteration that records the fetched price only when it leaves the
\* reference as it was.
EndIteration_SeenOnlyWhenSilent(p, ref) ==
    /\ last_notification_price' = ref
    /\ last_eth_price' = (IF ref = last_notification_price
                          THEN p ELSE last_eth_price)
    /\ pc' = "sleep"

\* A reference that, once set, moves only while somebody is subscribed.
EndIteration_KeepsReferenceWhenEmpty(p, ref) ==
    /\ last_notification_price' =
          (IF user_ids = {} /\ last_notification_price # None
           THEN last_notification_price ELSE ref)
    /\ last_eth_price' = p
    /\ pc' = "sleep"

\* The end of a successful iteration: last_eth_price = current_price, sleep.
\* ref is the value last_notification_price leaves the iteration with.
EndIteration(p, ref) ==
    /\ last_notification_price' = ref
    /\ last_eth_price' = p
    /\ pc' = "sleep"

\* A change measured from the previous poll instead of the reference.
price_change_FromLastPoll(p) == p - last_eth_price

\* price_change = current_price - last_notification_price
price_change(p) == p - last_notification_price

\* get_eth_price returned the price p: the body of the iteration up to its
\* next await (the first bot.send_message, or the sleep).
MonFetchSuccess(p) ==
    /\ pc = "fetching"
    /\ p \in FetchOutcomes(session) \ {None}
    /\ current_price' = p
    /\ iterRef' = last_notification_price
    /\ reply' = NoReply
    /\ IF HasBaseline(last_notification_price)
       THEN IF ThresholdReached(price_change(p))
            THEN \* send_price_notification(current_price, price_change)
                 /\ iterCalls' = iterCalls + 1
                 /\ call' = <<p, price_change(p)>>
                 /\ everCalled' = TRUE
                 /\ IF user_ids = {}
                    THEN \* "if not user_ids: return"
                         /\ EndIteration(p, p)
                         /\ UNCHANGED callVars
                    ELSE \* the for loop over user_ids.copy() reaches its first await
                         /\ snapshot' = user_ids
                         /\ \E u \in user_ids :
                               /\ cur' = u
                               /\ pending' = user_ids \ {u}
                         /\ pc' = "sending"
                         /\ UNCHANGED <<priceVars, result, evicted>>
            ELSE /\ EndIteration(p, last_notification_price)
                 /\ UNCHANGED <<iterCalls, call, everCalled, callVars>>
       ELSE \* first successful fetch: the baseline
            /\ EndIteration(p, p)
            /\ UNCHANGED <<iterCalls, call, everCalled, callVars>>
    /\ UNCHANGED <<user_ids, session, price_req, mainPc>>

\* An iteration over the registry itself: the ids that a /stop or an eviction
\* removed meanwhile are not yielded.
Remaining_OfLiveSet == pending \cap user_ids

\* The ids the for loop has still to yield: it iterates over user_ids.copy(),
\* which no handler touches.
Remaining == pending

\* bot.send_message(cur, text) is over with outcome o: the except clause on
\* a failure, then the next recipient, or the return to price_monitoring,
\* which sets both prices and sleeps.
DeliveryOver(o) ==
    /\ result' = [result EXCEPT ![cur] = o]
    /\ IF o # "ok" /\ IsBlocked(o)
       THEN /\ user_ids' = Discard(user_ids, cur)
            /\ evicted' = evicted \cup {cur}
       ELSE UNCHANGED <<user_ids, evicted>>
    /\ IF Remaining = {}
       THEN /\ cur' = 0
            /\ pending' = pending
            /\ EndIteration(current_price, current_price)
       ELSE /\ \E u \in Remaining :
                  /\ cur' = u
                  /\ pending' = pending \ {u}
            /\ UNCHANGED <<priceVars, pc>>

MonDelivered(o) ==
    /\ pc = "sending"
    /\ o \in Outcomes
    /\ DeliveryOver(o)
    /\ reply' = NoReply
    /\ UNCHANGED <<session, iterVars, snapshot, price_req, mainPc>>

\* An exception that escapes the body of an iteration is caught by "except
\* Exception" (line 184), logged, and the loop sleeps (line 187).  The body
\* raises none of itself: get_eth_price and the delivery loop catch their
\* own.  FaultSpec lets the statements that call out of the body raise: the
\* logging after a successful fetch (line 167), before anything is decided.
MonRaiseAfterFetch(p) ==
    /\ pc = "fetching"
    /\ p \in FetchOutcomes(session) \ {None}
    /\ current_price' = p
    /\ iterRef' = last_notification_price
    /\ pc' = "sleep_exc"
    /\ reply' = NoReply
    /\ UNCHANGED <<user_ids, priceVars, session, iterCalls, call, everCalled,
                   callVars, price_req, mainPc>>

\* ... and the logging in the except clause of a failed delivery (line 146):
\* the exception leaves send_price_notification, so the recipients not yet
\* reached are skipped and line 175 does not run.  The record of the
\* abandoned call is cleared.
MonRaiseInDelivery ==
    /\ pc = "sending"
    /\ snapshot' = {}
    /\ pending' = {}
    /\ cur' = 0
    /\ result' = NoResult
    /\ evicted' = {}
    /\ pc' = "sleep_exc"
    /\ reply' = NoReply
    /\ UNCHANGED <<user_ids, priceVars, session, iterVars, price_req, mainPc>>

\* ------------------------------------------------------------------- main

\* dp.start_polling returns or raises: main enters its finally clause.  The
\* monitor task, created before the call (line 196), has run to its first
\* await by then: it starts as soon as main is suspended, which start_polling
\* is before it can end.
MainPollingEnds ==
    /\ mainPc = "polling"
    /\ pc # "start"
    /\ mainPc' = "finally"
    /\ reply' = NoReply
    /\ UNCHANGED <<user_ids, priceVars, session, pc, iterVars, callVars, price_req>>

\* monitoring_task.cancel() and "await monitoring_task": CancelledError is
\* raised at the await the task is suspended at.  No except clause around
\* that await catches it, the task ends, and main, which catches it (line
\* 208), goes on.  Were it caught, the task would go on as after any other
\* error of that await (get_eth_price returning None, a failed delivery,
\* the except clause of line 184), and main would wait for a task that does
\* not end.  The sleep of line 187 is outside every try.
MainCancel ==
    /\ mainPc = "finally"
    /\ reply' = NoReply
    /\ IF ExceptException("CancelledError") /\ pc = "fetching"
       THEN /\ pc' = "sleep_fail"
            /\ mainPc' = "await_task"
            /\ UNCHANGED <<user_ids, priceVars, callVars>>
       ELSE IF ExceptException("CancelledError") /\ pc = "sending"
       THEN /\ DeliveryOver("transient")
            /\ mainPc' = "await_task"
            /\ UNCHANGED snapshot
       ELSE IF ExceptException("CancelledError") /\ pc = "sleep_fail"
       THEN /\ pc' = "sleep_exc"
            /\ mainPc' = "await_task"
            /\ UNCHANGED <<user_ids, priceVars, callVars>>
       ELSE /\ pc' = "cancelled"
            /\ mainPc' = "close_session"
            /\ UNCHANGED <<user_ids, priceVars, callVars>>
    /\ UNCHANGED <<session, iterVars, price_req>>

\* await price_tracker.close_session()
MainCloseSession ==
    /\ mainPc = "close_session"
    /\ session' = close_session(session)
    /\ mainPc' = "close_bot"
    /\ reply' = NoReply
    /\ UNCHANGED <<user_ids, priceVars, pc, iterVars, callVars, price_req>>

\* await bot.session.close(); then main returns (start_polling returned, or
\* raised KeyboardInterrupt, which line 201 catches), or the error that
\* start_polling raised leaves main after the finally clause.  asyncio.run
\* cancels the handler tasks that are left.
MainCloseBot ==
    /\ mainPc = "close_bot"
    /\ mainPc' \in {"done", "failed"}
    /\ price_req' = 0
    /\ reply' = NoReply
    /\ UNCHANGED <<user_ids, priceVars, session, pc, iterVars, callVars>>

\* ------------------------------------------------------------------- spec

Monitor ==
    \/ MonStart
    \/ MonWake
    \/ MonFetchFailure
    \/ \E p \in Prices : MonFetchSuccess(p)
    \/ \E o \in Outcomes : MonDelivered(o)

Commands ==
    \/ \E u \in Users : start_handler(u)
    \/ \E u \in Users : stop_handler(u)
    \/ status_handler
    \/ price_handler_call
    \/ \E r \in Prices \cup {None} : price_handler_reply(r)

Main ==
    \/ MainPollingEnds
    \/ MainCancel
    \/ MainCloseSession
    \/ MainCloseBot

Next == Monitor \/ Commands \/ Main

Spec == Init /\ [][Next]_vars

\* The event loop runs every task that is ready, and every await of the
\* monitor ends: the sleep after CHECK_INTERVAL, the GET and send_message
\* with a result, an error or the client's timeout.
FairSpec == Spec /\ WF_vars(Monitor)

Faults ==
    \/ \E p \in Prices : MonRaiseAfterFetch(p)
    \/ MonRaiseInDelivery

FaultNext == Next \/ Faults

\* The program with exceptions raised inside the monitor's iterations.
FaultSpec == Init /\ [][FaultNext]_vars /\ WF_vars(Monitor \/ Faults)

\* ----------------------------------------------------------------- claims

\* The monitor has finished an iteration whose fetch succeeded and sleeps
\* (line 187); current_price and iterRef are that iteration's fetched price
\* and the reference its fetch found.
IterationEnded == pc = "sleep" /\ current_price # None

\* C1: no call of send_price_notification, and no delivery, happens while
\* last_notification_price is unset, and the iteration that sets the
\* baseline (its fetch found the reference unset) makes no call.
C1_NoNotificationBeforeBaseline ==
    /\ last_notification_price = None =>
          ~everCalled /\ iterCalls = 0 /\ pc # "sending" /\ result = NoResult
    /\ current_price # None /\ iterRef = None =>
          iterCalls = 0 /\ pc # "sending" /\ result = NoResult

\* C1 witness: an iteration has just set the baseline from its fetch, after
\* which nothing has been sent.
C1_Witness ==
    /\ IterationEnded
    /\ iterRef = None
    /\ last_notification_price = current_price
    /\ ~everCalled

\* C2: an iteration that fetched p2 with reference p1 and abs(p2 - p1) >=
\* threshold has made exactly one call send_price_notification(p2, p2 - p1),
\* and leaves last_notification_price = p2.
C2_BreachNotifiesOnce ==
    (IterationEnded /\ iterRef # None
        /\ Abs(current_price - iterRef) >= PRICE_THRESHOLD)
    => /\ iterCalls = 1
       /\ call = <<current_price, current_price - iterRef>>
       /\ last_notification_price = current_price

\* C2 witness: a move of exactly the threshold, 3000 -> 3050, has notified.
C2_Witness ==
    /\ IterationEnded
    /\ iterRef = 3000
    /\ current_price = 3050
    /\ iterCalls = 1
    /\ last_notification_price = 3050

\* C3: an iteration that fetched p2 with reference p1 and abs(p2 - p1) <
\* threshold has made no call, delivered nothing, and leaves
\* last_notification_price = p1.
C3_SmallMoveIsSilent ==
    (IterationEnded /\ iterRef # None
        /\ Abs(current_price - iterRef) < PRICE_THRESHOLD)
    => /\ iterCalls = 0
       /\ call = NoCall
       /\ result = NoResult
       /\ last_notification_price = iterRef

\* C3 witness: 3010 was fetched against the reference 3000.
C3_Witness ==
    /\ IterationEnded
    /\ iterRef = 3000
    /\ current_price = 3010
    /\ last_notification_price = 3000
    /\ last_eth_price = 3010

\* C4: the step in which a fetch of the monitor returns None changes neither
\* price, nor the registry, makes no call and delivers nothing, and takes the
\* loop to its sleep, from which it fetches again (unless main cancels it).
C4_FailureSkipsIteration ==
    /\ [][(pc = "fetching" /\ pc' \notin {"fetching", "cancelled"}
              /\ current_price' = None)
          => /\ pc' = "sleep_fail"
             /\ UNCHANGED <<last_eth_price, last_notification_price, user_ids>>
             /\ UNCHANGED <<iterCalls, call, everCalled, result>>]_vars
    /\ (pc = "sleep_fail") ~> (pc = "fetching" \/ pc = "cancelled")

\* C4 witness: a fetch has failed after the prices were set, and they are
\* still set.
C4_Witness ==
    /\ pc = "sleep_fail"
    /\ last_eth_price = 3010
    /\ last_notification_price = 3000
    /\ user_ids # {}

\* A call of send_price_notification that found subscribers has returned.
CallReturned == IterationEnded /\ iterCalls = 1 /\ snapshot # {}

\* C5: a transient failure of the delivery to A does not remove A from the
\* registry (neither in that step nor later in the call), and the call goes
\* on: when it returns, every other id B of the snapshot has had its
\* delivery attempted, so B has the message whenever its delivery succeeds.
C5_FanOutIsolation ==
    /\ [](\A A \in snapshot : result[A] = "transient" =>
             /\ A \notin evicted
             /\ pc = "sending" => cur # 0
             /\ CallReturned => \A B \in snapshot : result[B] # "none")
    /\ [][\A A \in Users : (result[A] = "none" /\ result'[A] = "transient")
             => (A \in user_ids => A \in user_ids')]_vars

\* C5 witness: the call returned after the delivery to 1 failed transiently
\* and the delivery to 2 succeeded; 1 is still subscribed.
C5_Witness ==
    /\ CallReturned
    /\ snapshot = {1, 2}
    /\ result[1] = "transient"
    /\ result[2] = "ok"
    /\ 1 \in user_ids

\* C6 as stated: in the state the call returns in, every id whose delivery
\* failed with the "blocked" signal during the call is absent from the
\* registry.
C6_Original ==
    [][(pc = "sending" /\ pc' = "sleep")
          => \A A \in snapshot : result'[A] = "blocked" => A \notin user_ids']_vars

\* C6 as amended: the step in which the delivery to A fails with the
\* "blocked" signal removes A from the registry, and from then to the return
\* of the call only a /start of A (it adds A and nothing else) puts A back.
C6_EvictedUntilRestart ==
    [][\A A \in Users :
          /\ (result[A] = "none" /\ result'[A] = "blocked") => A \notin user_ids'
          /\ (result[A] = "blocked" /\ pc = "sending"
                 /\ A \notin user_ids /\ A \in user_ids')
             => (reply'.kind = "welcome" /\ user_ids' = user_ids \cup {A})]_vars

\* C6 witness: the call returned, the delivery to 1 failed with "blocked",
\* and 1 is absent.
C6_Witness ==
    /\ CallReturned
    /\ result[1] = "blocked"
    /\ 1 \in evicted
    /\ 1 \notin user_ids

\* C7: a /start from a subscribed id and a /stop from an id that is not
\* subscribed leave the registry as it was, and the handler answers.
C7_Idempotence ==
    [][\A u \in Users :
          /\ (start_handler(u) /\ u \in user_ids)
             => (user_ids' = user_ids /\ reply'.kind = "welcome")
          /\ (stop_handler(u) /\ u \notin user_ids)
             => (user_ids' = user_ids /\ reply'.kind = "bye")]_vars

\* C7 witness: /start has just been handled for an id that was subscribed,
\* beside another subscriber.
C7_Witness ==
    /\ reply.kind = "welcome"
    /\ reply.m
    /\ user_ids = {1, 2}

\* C8: whenever both prices are set they differ by less than the threshold.
C8_PricesWithinThreshold ==
    (last_eth_price # None /\ last_notification_price # None)
    => Abs(last_eth_price - last_notification_price) < PRICE_THRESHOLD

\* C8 witness: /status has just answered with both prices while the dispatch
\* for a fall to 0 is in flight.
C8_Witness ==
    /\ pc = "sending"
    /\ reply.kind = "status"
    /\ reply.a = 3010
    /\ reply.b = 3000
    /\ current_price = 0

\* C9: a step that changes a set last_notification_price belongs to an
\* iteration that called send_price_notification for the price it fetched,
\* which is the new reference; an iteration that ends without a call leaves
\* a set reference as it was.
C9_ReferenceMovesOnlyOnNotification ==
    [][/\ (last_notification_price # None
              /\ last_notification_price' # last_notification_price)
          => /\ iterCalls' = 1
             /\ call'[1] = current_price'
             /\ last_notification_price' = current_price'
       /\ (pc = "fetching" /\ pc' = "sleep" /\ iterCalls' = 0
              /\ last_notification_price # None)
          => last_notification_price' = last_notification_price]_vars

\* C9 witness: an iteration has moved the reference from 3000 to 3050 after
\* a delivery.
C9_Witness ==
    /\ IterationEnded
    /\ iterRef = 3000
    /\ last_notification_price = 3050
    /\ \E u \in Users : result[u] = "ok"

\* C10: the loop has no way out but its cancellation by main: whatever an
\* iteration ends in (a failed fetch, a caught exception, success), the task
\* goes to a sleep, and unless it is cancelled it is fetching again and
\* again.
C10_LoopNeverStops ==
    /\ [][pc' # pc =>
            /\ pc' \in {"fetching", "sending", "sleep", "sleep_fail", "sleep_exc",
                        "cancelled"}
            /\ pc \in {"sleep", "sleep_fail", "sleep_exc"} =>
                  pc' \in {"fetching", "cancelled"}
            /\ pc' = "cancelled" => mainPc = "finally"]_vars
    /\ []<>(pc = "fetching" \/ pc = "cancelled")

\* C10 witness: an exception raised during a delivery was caught and the
\* loop is at its sleep, not cancelled.
C10_Witness ==
    /\ pc = "sleep_exc"
    /\ iterCalls = 1
    /\ last_notification_price = iterRef
    /\ mainPc = "polling"


\* C11: cancelling the monitor task at whichever await it is suspended at
\* (the fetch, a delivery, any of the sleeps) ends it: the cancellation is not
\* swallowed by an "except Exception" of the loop, main goes on to its
\* cleanup instead of failing or waiting, and the cancelled task never again
\* fetches, notifies, delivers or updates a price.
C11_CancellationEndsTheTask ==
    /\ [][(mainPc = "finally" /\ mainPc' # "finally")
            => /\ pc' = "cancelled"
               /\ mainPc' = "close_session"
               /\ UNCHANGED <<user_ids, last_eth_price,
                              last_notification_price, iterCalls, call,
                              result, evicted>>]_vars
    /\ [][pc = "cancelled"
            => /\ pc' = "cancelled"
               /\ UNCHANGED <<last_eth_price, last_notification_price,
                              current_price, iterCalls, call, result,
                              evicted, pending, cur>>]_vars

\* The task was cancelled in the middle of a notification call, recipients
\* still pending, and main has finished.
C11_Witness ==
    /\ pc = "cancelled"
    /\ cur # 0
    /\ pending # {}
    /\ mainPc = "done"


\* C12: the tracker's HTTP session does not leak.  On every exit path of main
\* (polling returned, was interrupted, or raised), from the moment main's
\* close_session has run, and so once main is over, the session that
\* get_eth_price created is closed and no session is open: a /price handled
\* during the rest of the shutdown does not open another.
C12_SessionDoesNotLeak ==
    mainPc \in {"close_bot", "done", "failed"} => session = "closed"

\* main left with polling's error after its cleanup, the session closed.
C12_Witness ==
    /\ mainPc = "failed"
    /\ session = "closed"
    /\ last_eth_price # None


\* C13: /price answers with exactly one message, chosen by the fetch: for
\* every price get_eth_price returns, 0 included, the message reports that
\* price, and the failure text is sent exactly when get_eth_price returned
\* None.
C13_PriceReplyFollowsFetch ==
    reply.kind \in {"price", "price_failed"}
        => /\ reply.got # None => (reply.kind = "price" /\ reply.a = reply.got)
           /\ reply.got = None <=> reply.kind = "price_failed"


\* C14: the decision and the reported change are taken against the floating
\* reference, not against the previous poll.  With a baseline r, a successful
\* fetch of p notifies exactly when abs(p - r) >= PRICE_THRESHOLD, whatever
\* the previous poll was; the one notification then carries the change p - r,
\* and when the iteration ends the reference is p; otherwise nothing is sent
\* and the reference stays r (threshold 50, fetches 3000, 3010, 3050: one
\* notification, on the third fetch, with change +50, new reference 3050).
C14_FloatingReference ==
    /\ [][(pc = "fetching" /\ current_price' # None
                            /\ last_notification_price # None)
            => LET p == current_price'
                   r == last_notification_price
               IN  /\ iterCalls' = (IF Abs(p - r) >= PRICE_THRESHOLD
                                     THEN 1 ELSE 0)
                   /\ iterCalls' = 1 => call' = <<p, p - r>>
                   /\ iterCalls' = 0
                        => /\ call' = NoCall
                           /\ pc' = "sleep"
                           /\ UNCHANGED last_notification_price]_vars
    /\ [](IterationEnded /\ iterCalls = 1
            => /\ last_notification_price = current_price
               /\ call = <<current_price, current_price - iterRef>>)

\* After the baseline 3000 and a silent poll of 3010, the fetch of 3050 (40
\* from the previous poll, 50 from the reference) is being notified with the
\* change +50.
C14_Witness ==
    /\ pc = "sending"
    /\ iterRef = 3000
    /\ last_eth_price = 3010
    /\ current_price = 3050
    /\ call = <<3050, 50>>


\* C15: a call of send_price_notification attempts the delivery exactly once,
\* without retry, to every id that was in user_ids when the call copied it,
\* and to no other id, whatever /start, /stop and evictions do to user_ids
\* while the deliveries are in flight: the copy never changes during the
\* call, the ids attempted, in flight and still to come always partition it,
\* every delivery step records the outcome of one id not attempted before,
\* and when the call returns the ids attempted are exactly those of the copy.
C15_SnapshotFanOut ==
    /\ [](pc = "sending"
            => /\ cur \in snapshot
               /\ pending \subseteq snapshot \ {cur}
               /\ \A u \in Users :
                     result[u] # "none" <=> u \in snapshot \ (pending \cup {cur}))
    /\ [][(pc = "sending" /\ pc' # "cancelled")
            => /\ snapshot' = snapshot
               /\ result' # result
                    => /\ result[cur] = "none"
                       /\ result'[cur] \in Outcomes
                       /\ \A u \in Users \ {cur} : result'[u] = result[u]
               /\ (pc' = "sending" /\ cur' # cur)
                    => /\ result' # result
                       /\ cur' \in pending
                       /\ pending' = pending \ {cur'}
               /\ pc' = "sleep"
                    => /\ pending = {}
                       /\ \A u \in Users :
                             result'[u] # "none" <=> u \in snapshot]_vars

\* Both subscribers sent /stop while the first delivery of a call was in
\* flight; the call has gone on to the second id of its copy all the same.
C15_Witness ==
    /\ pc = "sending"
    /\ snapshot = {1, 2}
    /\ result[1] = "ok"
    /\ cur = 2
    /\ user_ids = {}
    /\ evicted = {}


\* C16: last_eth_price and last_notification_price are written only by
\* price_monitoring.  Either changes only in the step that ends a successful
\* iteration of the loop, never in a delivery step that leaves
\* send_price_notification running, and no step of a command handler (/start,
\* /stop, /status, /price) changes either, makes a notification call or
\* moves the monitor; so a /price that fetches a price as far from the
\* reference as the threshold or farther changes nothing and notifies nobody.
C16_OnlyTheMonitorWritesPrices ==
    /\ [][(last_eth_price' # last_eth_price
            \/ last_notification_price' # last_notification_price)
            => /\ pc \in {"fetching", "sending"}
               /\ pc' = "sleep"
               /\ last_eth_price' = current_price'
               /\ last_notification_price' \in
                     {last_notification_price, current_price'}]_vars
    /\ [][(reply'.kind # "none" \/ price_req' > price_req)
            => UNCHANGED <<priceVars, pc, iterVars, callVars>>]_vars

\* /price has just reported 3050 while the reference and the last seen price
\* are 3000: the prices are as they were and no notification call was ever
\* made.
C16_Witness ==
    /\ reply.kind = "price"
    /\ reply.a = 3050
    /\ last_notification_price = 3000
    /\ last_eth_price = 3000
    /\ ~everCalled
    /\ user_ids # {}


\* The monitor is in one of its sleeps.
Sleeping == pc \in {"sleep", "sleep_fail", "sleep_exc"}

\* C17: the first fetch is made at once, with no sleep before it, and between
\* two consecutive fetches of the loop there is exactly one sleep, whichever
\* way the earlier iteration ended (failed fetch, success without or with a
\* notification, exception caught by the loop): the task's first step begins
\* a fetch; a fetch begins otherwise only when a sleep ends; the work of an
\* iteration ends only in a sleep; and a sleep is followed by nothing but the
\* next fetch (or by the task's cancellation).
C17_OneSleepBetweenFetches ==
    [][/\ (pc = "start" /\ pc' # pc) => pc' = "fetching"
       /\ (pc' = "fetching" /\ pc # pc') => (pc = "start" \/ Sleeping)
       /\ (pc = "fetching" /\ pc' # pc)
            => pc' \in {"sending", "sleep", "sleep_fail", "sleep_exc",
                        "cancelled"}
       /\ (pc = "sending" /\ pc' # pc)
            => pc' \in {"sleep", "sleep_exc", "cancelled"}
       /\ (Sleeping /\ pc' # pc) => pc' \in {"fetching", "cancelled"}]_vars

\* A later fetch of the loop has begun, after iterations that set the
\* baseline 3000 and made a notification call, and the reference is 3050.
C17_Witness ==
    /\ pc = "fetching"
    /\ last_notification_price = 3050
    /\ last_eth_price = 3050
    /\ everCalled
    /\ mainPc = "polling"


\* C18: last_eth_price is set on every success.  The step that ends an
\* iteration whose fetch returned p (it set the baseline, made a notification
\* call, whatever became of the deliveries, or made none) leaves
\* last_eth_price = p, and so it stays through the sleep that follows.
C18_LastSeenIsTheFetchedPrice ==
    /\ [][(pc \in {"fetching", "sending"} /\ pc' = "sleep")
            => /\ current_price' # None
               /\ last_eth_price' = current_price']_vars
    /\ [](IterationEnded => last_eth_price = current_price)

\* The iteration that fetched 3050 against 3000 has ended after a call whose
\* two deliveries both failed.
C18_Witness ==
    /\ IterationEnded
    /\ iterRef = 3000
    /\ current_price = 3050
    /\ snapshot = {1, 2}
    /\ result[1] = "transient"
    /\ result[2] = "blocked"
    /\ last_eth_price = 3050


\* C19: a move that reaches the threshold while user_ids is empty.  The fetch
\* of p against the reference r, abs(p - r) >= PRICE_THRESHOLD, with nobody
\* subscribed makes the one call, which returns at once: no copy is taken, no
\* delivery is begun, the iteration ends in that step and the reference is
\* p.  Deliveries belong only to calls that found subscribers, so whoever
\* subscribes afterwards gets nothing about that move: through the rest of
\* the iteration nothing is delivered, and later moves are measured from p.
C19_BreachWithNobodySubscribed ==
    /\ [][(/\ pc = "fetching"
            /\ current_price' # None
            /\ last_notification_price # None
            /\ Abs(current_price' - last_notification_price) >= PRICE_THRESHOLD
            /\ user_ids = {})
            => /\ iterCalls' = 1
               /\ call' = <<current_price',
                            current_price' - last_notification_price>>
               /\ snapshot' = {}
               /\ result' = NoResult
               /\ pc' = "sleep"
               /\ last_notification_price' = current_price'
               /\ user_ids' = {}]_vars
    /\ [](snapshot = {} => (pc # "sending" /\ result = NoResult))
    /\ []((IterationEnded /\ iterCalls = 1 /\ snapshot = {})
            => last_notification_price = current_price)

\* 3050 was fetched against the reference 3000 with nobody subscribed; 1 has
\* subscribed during the sleep that followed and has been sent nothing, and
\* the reference is 3050.
C19_Witness ==
    /\ IterationEnded
    /\ iterRef = 3000
    /\ current_price = 3050
    /\ iterCalls = 1
    /\ snapshot = {}
    /\ user_ids = {1}
    /\ result = NoResult
    /\ last_notification_price = 3050


\* C20: the frame of user_ids.  A step changes whether an id u is subscribed
\* only if it is u's own /start, which adds u, u's own /stop, which removes
\* u, or the delivery to u failing with the "blocked" signal inside
\* send_price_notification, which removes u.  So /price, /status, the
\* monitor's fetches and price updates, main's shutdown, a transient failure
\* of the delivery to u and whatever concerns another id leave u as it was.
C20_RegistryFrame ==
    /\ [][\A u \in Users :
            ((u \in user_ids') # (u \in user_ids))
            => \/ start_handler(u) /\ u \in user_ids'
               \/ stop_handler(u) /\ u \notin user_ids'
               \/ /\ pc = "sending"
                  /\ cur = u
                  /\ result'[u] = "blocked"
                  /\ u \notin user_ids']_vars
    /\ [][(\/ reply'.kind \in {"price", "price_failed", "status"}
           \/ price_req' # price_req
           \/ mainPc' # mainPc
           \/ pc \notin {pc', "sending"})
            => user_ids' = user_ids]_vars

\* The delivery to 1 has failed with the "blocked" signal and removed 1; 2,
\* whose delivery is in flight, is still subscribed.
C20_Witness ==
    /\ pc = "sending"
    /\ snapshot = {1, 2}
    /\ result[1] = "blocked"
    /\ evicted = {1}
    /\ cur = 2
    /\ user_ids = {2}

====
